---------------------------- MODULE Spec2Model ----------------------------
(***************************************************************************)
(* Cake Catcher: the session core (GameManager, Item, Player, ComboEffect) *)
(* as a state machine.  One step is one frame of the PLAYING branch of the *)
(* main loop: the plate follows the tracked hand, then GameManager.update  *)
(* runs once.                                                              *)
(*                                                                         *)
(* Units.  Times are integer milliseconds, as pygame.time.get_ticks()      *)
(* returns them; the code's seconds are ms / 1000, so a comparison with a  *)
(* constant c seconds is written against c * 1000.  The difficulty values  *)
(* and the item's y and speed are fixed-point in units of 1/200000 (1.3 is *)
(* 260000), in which the stage interpolation is exact for every integer    *)
(* millisecond.  The plate's x is fixed-point in fifths of a pixel.        *)
(* Geometry is scaled down: the display, the sprites and the fall speeds   *)
(* are small named bounds, the comparisons and the arithmetic on them are  *)
(* the code's.                                                             *)
(***************************************************************************)
EXTENDS Integers, Sequences, FiniteSets, TLC

(* ------------------------------ bounds -------------------------------- *)
\* display size in pixels (set at runtime from the display, main.py:442)
SCREEN_WIDTH == 3
SCREEN_HEIGHT == 6
\* pixels per 100 units of Item's base_max_size (SCALE_FACTOR * 1.35)
ITEM_SCALE == 1
\* the plate sprite, and its distance from the bottom of the display
PLATE_WIDTH == 1
PLATE_HEIGHT == 2
PLATE_OFFSET == 2
\* the clock stops being advanced this many seconds after the round's end
Overtime == 1
\* frames explored by the 30 FPS specification
MaxFrames == 620
\* seconds before the start of the round at which the difficulty is probed
Before == 2
\* frames explored with a spawn interval that is not positive
MaxDegenerate == 4
\* pixels by which the display is higher than the height item.py read at
\* import
Taller == 1
\* pixels by which the display is lower than that height
Shorter == 1
\* frames explored by the camera-paced specification
MaxCameraFrames == 125
\* frames explored with a hand that leaves the picture
MaxTrackFrames == 30
\* rounds played in one run of main()
MaxRounds == 2
\* characters typed into the name entry
MaxName == 1
\* frames spent on the end screen after its buttons are shown
MaxLinger == 1

(* -------------------------- program constants ------------------------- *)
GAME_DURATION == 60
combo_max_time == 4
max_lifetime == 1200
SPECIAL_RETRY == 10
SPAWN_FPS == 30
FPS == 30

ITEM_GOOD == "GOOD"
ITEM_BAD == "BAD"
ITEM_SPECIAL == "SPECIAL"

SCORES == [t \in {ITEM_GOOD, ITEM_BAD, ITEM_SPECIAL} |->
             CASE t = ITEM_GOOD -> 10
               [] t = ITEM_BAD -> 0 - 15
               [] t = ITEM_SPECIAL -> 50]

\* None, for a field that holds an object (<<object>>) or None
None == << >>
NoError == "None"
\* 1.0 in the fixed-point of the difficulty values and of an item's y
ONE == 200 * 1000

(* ------------------------- environment inputs ------------------------- *)
\* time between two frames, in ms
DtSet == {3000, 4000}
\* random.uniform(20, 30), in ms
SpecialDelays == {20000, 25500}
\* random.uniform(3, 6) * SCALE_FACTOR, in pixels per frame
BaseSpeeds == {1, 2}
\* hand_tracker.get_hand_position(): <<x>> with the normalized x in tenths
\* (5 is HandTracker's initial last_x, 0.5), << >> for None
HandSet == {<<5>>, <<10>>}
\* no hand is ever detected: last_x stays 0.5
SteadyHand == {<<5>>}

VARIABLES
  clock,    \* pygame.time.get_ticks() - start_time at the last frame
  gm,       \* the GameManager's fields
  player,   \* the Player's fields
  log,      \* what the last update() did (history, not program state)
  probe,    \* a call of get_difficulty_params: the clock it read, its result
  awaited,  \* <<elapsed time of the latest miss of a Special item that no
            \* spawn of a Special item has followed yet>> (history)
  sprite,   \* <<an Item with its rotation fields>> on which update(dt) is
            \* called alone, or None
  hand,     \* the hand_x that main read in the last frame (history)
  app       \* main()'s locals, the files it writes and what its last
            \* frame did; None where the session is driven alone

vars == <<clock, gm, player, log, probe, awaited, sprite, hand, app>>

(* ------------------------------ helpers ------------------------------- *)
\* Python's int() on a quotient: truncation toward zero
Trunc(n, d) == IF n >= 0 THEN n \div d ELSE 0 - ((0 - n) \div d)

Min2(a, b) == IF a <= b THEN a ELSE b
Max2(a, b) == IF a >= b THEN a ELSE b

\* lerp with its end points taken in the wrong order (faulty variant)
lerp_swapped(start, end, num, den) == end + ((start - end) * num) \div den

\* utils.lerp with factor = num / den
lerp(start, end, num, den) == start + ((end - start) * num) \div den

\* pygame.Rect.colliderect
colliderect(a, b) ==
  /\ a.x < b.x + b.w
  /\ b.x < a.x + a.w
  /\ a.y < b.y + b.h
  /\ b.y < a.y + a.h

(* ------------------------------- Player ------------------------------- *)
\* Player.__init__
PlayerInit ==
  [x |-> (SCREEN_WIDTH \div 2) * 5,
   target_x |-> (SCREEN_WIDTH \div 2) * 5,
   y |-> SCREEN_HEIGHT - PLATE_OFFSET,
   width |-> PLATE_WIDTH,
   height |-> PLATE_HEIGHT,
   rect_x |-> SCREEN_WIDTH \div 2]

\* update_target without the clamp (faulty variant)
update_target_unclamped(p, normalized_x) ==
  [p EXCEPT !.target_x = (normalized_x * SCREEN_WIDTH * 5) \div 10]

\* Player.update_target(normalized_x)
update_target(p, normalized_x) ==
  [p EXCEPT !.target_x =
     Max2((p.width \div 2) * 5,
          Min2((SCREEN_WIDTH - p.width \div 2) * 5,
               (normalized_x * SCREEN_WIDTH * 5) \div 10))]

\* Player.update
PlayerUpdate(p) ==
  LET nx == lerp(p.x, p.target_x, 1, 5)
  IN [p EXCEPT !.x = nx, !.rect_x = Trunc(nx - (p.width \div 2) * 5, 5)]

\* Player.get_rect
PlayerRect(p) == [x |-> p.rect_x, y |-> p.y, w |-> p.width, h |-> p.height]

(* -------------------------------- Item -------------------------------- *)
\* Item.__init__: max_size (the placeholder sprite is max_size square)
max_size(item_type) ==
  Trunc((IF item_type # ITEM_SPECIAL THEN 100 ELSE 120) * ITEM_SCALE, 100)

\* Item.__init__: random.randint(self.width, SCREEN_WIDTH - self.width)
SpawnXs(item_type) == max_size(item_type) .. (SCREEN_WIDTH - max_size(item_type))

\* Item.__init__(item_type, speed_multiplier) with its random draws given
NewItem(item_type, speed_multiplier, base_speed, x) ==
  [type |-> item_type,
   x |-> x,
   y |-> (0 - max_size(item_type)) * ONE,
   width |-> max_size(item_type),
   height |-> max_size(item_type),
   speed |-> base_speed * speed_multiplier,
   score_value |-> SCORES[item_type],
   caught |-> FALSE]

\* a fall that gathers speed (faulty variant)
ItemUpdate_gathers(item) ==
  [item EXCEPT !.y = item.y + item.speed,
               !.speed = item.speed + item.speed \div 100]

\* Item.update: the fall (dt only turns the sprite)
ItemUpdate(item) == [item EXCEPT !.y = item.y + item.speed]

\* 360 degrees, in millionths of a degree
FULL_TURN == 360 * 1000 * 1000

\* the turn of the sprite without the reduction modulo 360 (faulty variant)
ItemTurn_unwrapped(item, dt) ==
  [item EXCEPT
     !.rotation = item.rotation + item.angular_velocity * dt,
     !.angular_velocity =
        Trunc(item.angular_velocity * item.rotation_friction, 1000)]

\* Item.update(dt): the turn of the sprite (rotation in millionths of a
\* degree, angular_velocity in thousandths of a degree per second, dt in
\* ms, rotation_friction in thousandths)
ItemTurn(item, dt) ==
  [item EXCEPT
     !.rotation = (item.rotation + item.angular_velocity * dt) % FULL_TURN,
     !.angular_velocity =
        Trunc(item.angular_velocity * item.rotation_friction, 1000)]

\* Item.update(dt) on an item that carries its rotation fields
Item_update(item, dt) == ItemTurn(ItemUpdate(item), dt)

\* Item.get_rect: rect.x = int(self.x), rect.y = int(self.y)
ItemRect(item) ==
  [x |-> item.x, y |-> Trunc(item.y, ONE), w |-> item.width, h |-> item.height]

\* Item.is_off_screen
is_off_screen(item) == item.y > SCREEN_HEIGHT * ONE

is_good(item) == item.type = ITEM_GOOD
is_bad(item) == item.type = ITEM_BAD
is_special(item) == item.type = ITEM_SPECIAL

(* ----------------------------- ComboEffect ---------------------------- *)
\* an effect that flags the celebration at exactly 10 (faulty variant)
NewComboEffect_only10(combo_count) ==
  [combo |-> combo_count, lifetime |-> 0, trigger_special |-> combo_count = 10]

\* ComboEffect.__init__
NewComboEffect(combo_count) ==
  [combo |-> combo_count, lifetime |-> 0, trigger_special |-> combo_count >= 10]

\* the object a field holds
Obj(field) == field[1]

\* ComboEffect.update(dt): the effect, or None once it has finished
ComboEffectUpdate(e, dt) ==
  IF e.lifetime + dt >= max_lifetime THEN None
  ELSE <<[e EXCEPT !.lifetime = e.lifetime + dt]>>

\* ComboEffect.should_trigger_special (lifetime < 0.1 s)
should_trigger_special(e) == e.trigger_special /\ e.lifetime < 100

(* ----------------------------- difficulty ----------------------------- *)
\* a stage table whose third stage is slower than the second (faulty
\* variant)
stages_dip ==
  << [t |-> 0,  speed |-> (13 * ONE) \div 10, interval |-> (20 * ONE) \div 10],
     [t |-> 10, speed |-> (15 * ONE) \div 10, interval |-> (17 * ONE) \div 10],
     [t |-> 30, speed |-> (14 * ONE) \div 10, interval |-> (14 * ONE) \div 10],
     [t |-> 45, speed |-> (21 * ONE) \div 10, interval |-> (11 * ONE) \div 10] >>

\* GameManager.get_difficulty_params: (time_threshold, speed, spawn_interval)
stages ==
  << [t |-> 0,  speed |-> (13 * ONE) \div 10, interval |-> (20 * ONE) \div 10],
     [t |-> 10, speed |-> (15 * ONE) \div 10, interval |-> (17 * ONE) \div 10],
     [t |-> 30, speed |-> (18 * ONE) \div 10, interval |-> (14 * ONE) \div 10],
     [t |-> 45, speed |-> (21 * ONE) \div 10, interval |-> (11 * ONE) \div 10] >>

\* the stage search without the test against the next threshold: it
\* breaks at the first stage already begun (faulty variant)
StageHit_first(elapsed) ==
  LET hits == {i \in 1 .. (Len(stages) - 1) : elapsed >= stages[i].t * 1000}
  IN IF hits = {} THEN 0 ELSE CHOOSE i \in hits : \A j \in hits : i <= j

\* the first i of range(len(stages) - 1) the loop breaks at, 0 if none
StageHit(elapsed) ==
  LET hits == {i \in 1 .. (Len(stages) - 1) :
                 /\ elapsed >= stages[i].t * 1000
                 /\ (i = Len(stages) - 1 \/ elapsed < stages[i + 1].t * 1000)}
  IN IF hits = {} THEN 0 ELSE CHOOSE i \in hits : \A j \in hits : i <= j

\* get_difficulty_params without min(1.0, ...) on the factor (faulty
\* variant)
get_difficulty_params_unclamped(elapsed) ==
  LET i == StageHit(elapsed)
      current_stage == IF i = 0 THEN stages[1] ELSE stages[i]
      next_stage == IF i = 0 THEN stages[2] ELSE stages[i + 1]
      time_range == (next_stage.t - current_stage.t) * 1000
      time_into_range == elapsed - current_stage.t * 1000
  IN [speed |-> lerp(current_stage.speed, next_stage.speed,
                     time_into_range, time_range),
      spawn_interval |-> lerp(current_stage.interval, next_stage.interval,
                              time_into_range, time_range)]

\* GameManager.get_difficulty_params at elapsed ms
get_difficulty_params(elapsed) ==
  LET i == StageHit(elapsed)
      current_stage == IF i = 0 THEN stages[1] ELSE stages[i]
      next_stage == IF i = 0 THEN stages[2] ELSE stages[i + 1]
      time_range == (next_stage.t - current_stage.t) * 1000
      time_into_range == elapsed - current_stage.t * 1000
      \* factor = min(1.0, time_into_range / time_range) as num / den
      num == IF time_range > 0 THEN Min2(time_range, time_into_range) ELSE 0
      den == IF time_range > 0 THEN time_range ELSE 1
  IN [speed |-> lerp(current_stage.speed, next_stage.speed, num, den),
      spawn_interval |-> lerp(current_stage.interval, next_stage.interval, num, den)]

\* int(spawn_interval_seconds * 30)
spawn_interval_frames(spawn_interval) == Trunc(spawn_interval * SPAWN_FPS, ONE)

(* ----------------------------- GameManager ---------------------------- *)
\* GameManager.__init__, given its draw of random.uniform(20, 30)
GMInit(delay) ==
  [score |-> 0,
   items |-> << >>,
   spawn_timer |-> 0,
   speed_multiplier |-> ONE,
   game_over |-> FALSE,
   next_special_spawn_time |-> delay,
   special_spawned_this_interval |-> FALSE,
   special_missed |-> FALSE,
   special_items_spawned |-> 0,
   combo_count |-> 0,
   combo_timer |-> 0,
   combo_effect |-> None,
   last_frame_time |-> 0,
   raised |-> NoError]

GMFields == DOMAIN GMInit(0)

\* what one update() did: whether it got past the clock check, whether the
\* combo timer ran out, the catches in order, the items created, the
\* number of specials found missed and the items the loop looked at, each
\* as its kinematics step left it
EmptyLog ==
  [ran |-> FALSE, expired |-> FALSE,
   catches |-> << >>, spawned |-> << >>, missed |-> 0, seen |-> << >>]

\* get_remaining_time counting from one second more (faulty variant)
get_remaining_time_late(elapsed) ==
  Max2(0, (GAME_DURATION + 1) * 1000 - elapsed)

\* GameManager.get_remaining_time
get_remaining_time(elapsed) == Max2(0, GAME_DURATION * 1000 - elapsed)

\* the end of the round also clearing the live items (faulty variant)
TimeUp_clears(s) == [s EXCEPT !.game_over = TRUE, !.items = << >>]

\* GameManager.update: time is up
TimeUp(s) == [s EXCEPT !.game_over = TRUE]

\* the combo timer resetting the combo one frame early (faulty variant)
ComboDecay_early(s, dt) ==
  IF s.combo_timer > 0
  THEN IF s.combo_timer - 2 * dt <= 0
       THEN [s EXCEPT !.combo_count = 0, !.combo_timer = 0,
                      !.log.expired = TRUE]
       ELSE [s EXCEPT !.combo_timer = s.combo_timer - dt]
  ELSE s

\* an expiry that leaves the timer where the subtraction took it (faulty
\* variant)
ComboDecay_unfloored(s, dt) ==
  IF s.combo_timer > 0
  THEN IF s.combo_timer - dt <= 0
       THEN [s EXCEPT !.combo_count = 0, !.combo_timer = s.combo_timer - dt,
                      !.log.expired = TRUE]
       ELSE [s EXCEPT !.combo_timer = s.combo_timer - dt]
  ELSE s

\* an expiry that stops the timer but keeps the count (faulty variant)
ComboDecay_keeps_count(s, dt) ==
  IF s.combo_timer > 0
  THEN IF s.combo_timer - dt <= 0
       THEN [s EXCEPT !.combo_timer = 0, !.log.expired = TRUE]
       ELSE [s EXCEPT !.combo_timer = s.combo_timer - dt]
  ELSE s

\* GameManager.update: the combo timer
ComboDecay(s, dt) ==
  IF s.combo_timer > 0
  THEN IF s.combo_timer - dt <= 0
       THEN [s EXCEPT !.combo_count = 0, !.combo_timer = 0,
                      !.log.expired = TRUE]
       ELSE [s EXCEPT !.combo_timer = s.combo_timer - dt]
  ELSE s

\* GameManager.update: the combo effect's animation
EffectStep(s, dt) ==
  IF s.combo_effect # None
  THEN [s EXCEPT !.combo_effect = ComboEffectUpdate(Obj(s.combo_effect), dt)]
  ELSE s

\* GameManager.spawn_item(force_special): one outcome per random draw
spawn_item(s, force_special) ==
  LET types == IF force_special THEN {ITEM_SPECIAL} ELSE {ITEM_GOOD, ITEM_BAD}
  IN UNION { { [s EXCEPT !.items = Append(s.items,
                                   NewItem(t, s.speed_multiplier, b, x)),
                       !.log.spawned = Append(s.log.spawned, t)] :
                 b \in BaseSpeeds, x \in SpawnXs(t) } : t \in types }

\* the forced special spawn restarting the regular stream's counter
\* (faulty variant)
SpecialSpawn_resets(s, elapsed) ==
  IF elapsed >= s.next_special_spawn_time /\ ~s.special_spawned_this_interval
  THEN { [n EXCEPT !.special_spawned_this_interval = TRUE,
                   !.special_items_spawned = n.special_items_spawned + 1,
                   !.spawn_timer = 0] :
           n \in spawn_item(s, TRUE) }
  ELSE {s}

\* the forced special spawn without the test of the spawn time (faulty
\* variant)
SpecialSpawn_untimed(s, elapsed) ==
  IF ~s.special_spawned_this_interval
  THEN { [n EXCEPT !.special_spawned_this_interval = TRUE,
                   !.special_items_spawned = n.special_items_spawned + 1] :
           n \in spawn_item(s, TRUE) }
  ELSE {s}

\* GameManager.update: the forced special spawn
SpecialSpawn(s, elapsed) ==
  IF elapsed >= s.next_special_spawn_time /\ ~s.special_spawned_this_interval
  THEN { [n EXCEPT !.special_spawned_this_interval = TRUE,
                   !.special_items_spawned = n.special_items_spawned + 1] :
           n \in spawn_item(s, TRUE) }
  ELSE {s}

\* the regular spawn waiting one tick more than the interval (faulty
\* variant)
RegularSpawn_late(s, frames) ==
  IF s.spawn_timer + 1 > frames
  THEN spawn_item([s EXCEPT !.spawn_timer = 0], FALSE)
  ELSE {[s EXCEPT !.spawn_timer = s.spawn_timer + 1]}

\* the regular spawn guarded against an interval that is not positive
\* (faulty variant)
RegularSpawn_guarded(s, frames) ==
  IF frames > 0 /\ s.spawn_timer + 1 >= frames
  THEN spawn_item([s EXCEPT !.spawn_timer = 0], FALSE)
  ELSE {[s EXCEPT !.spawn_timer = s.spawn_timer + 1]}

\* GameManager.update: the regular spawn
RegularSpawn(s, frames) ==
  IF s.spawn_timer + 1 >= frames
  THEN spawn_item([s EXCEPT !.spawn_timer = 0], FALSE)
  ELSE {[s EXCEPT !.spawn_timer = s.spawn_timer + 1]}

\* list.remove(item): the list without its first element equal to item
RECURSIVE RemoveFirst(_, _)
RemoveFirst(list, item) ==
  IF list = << >> THEN << >>
  ELSE IF Head(list) = item THEN Tail(list)
  ELSE <<Head(list)>> \o RemoveFirst(Tail(list), item)

InList(list, item) == \E i \in 1 .. Len(list) : list[i] = item

\* a score that is not allowed below zero (faulty variant)
AddScore_floor(score, value) == Max2(0, score + value)

\* GameManager.handle_catch: self.score += item.score_value
AddScore(score, value) == score + value

\* a catch adding a full window to what is left of it (faulty variant)
ComboCatch_accumulates(s) ==
  [s EXCEPT !.combo_timer = s.combo_timer + combo_max_time * 1000,
            !.combo_count = s.combo_count + 1]

\* GameManager.handle_catch: a good or special catch restarts the combo
\* window and counts
ComboCatch(s) ==
  [s EXCEPT !.combo_timer = combo_max_time * 1000,
            !.combo_count = s.combo_count + 1]

\* GameManager.handle_catch: the combo effect replaces the previous one
\* (only if combo >= 2)
ComboVisual(s) ==
  IF s.combo_count >= 2
  THEN [s EXCEPT !.combo_effect = <<NewComboEffect(s.combo_count)>>]
  ELSE s

\* GameManager.handle_catch: whether the celebration burst and the
\* confetti sound of the combo effect go off
SpecialVisual(s) ==
  s.combo_count >= 2 /\ should_trigger_special(Obj(s.combo_effect))

\* a bonus at every count from the milestone on (faulty variant)
MilestoneBonus_level(combo_count) ==
  IF combo_count >= 10 THEN 30
  ELSE IF combo_count >= 5 THEN 10
  ELSE 0

\* GameManager.handle_catch: the milestone bonus at this combo count
MilestoneBonus(combo_count) ==
  IF combo_count = 5 THEN 10
  ELSE IF combo_count = 10 THEN 30
  ELSE 0

\* a bad catch leaving the combo window running (faulty variant)
ComboBreak_keeps_timer(s) ==
  [s EXCEPT !.combo_count = 0, !.combo_effect = None]

\* GameManager.handle_catch: a bad catch resets the combo
ComboBreak(s) ==
  [s EXCEPT !.combo_count = 0, !.combo_timer = 0, !.combo_effect = None]

\* GameManager.handle_catch(item, player)
handle_catch(s, item, p) ==
  LET scored == [s EXCEPT !.score = AddScore(s.score, item.score_value)]
      counted == ComboVisual(ComboCatch(scored))
      after ==
        IF is_good(item) \/ is_special(item)
        THEN [counted EXCEPT
                !.score = AddScore(counted.score,
                                   MilestoneBonus(counted.combo_count))]
        ELSE IF is_bad(item) THEN ComboBreak(scored)
        ELSE scored
      entry ==
        [type |-> item.type,
         score_before |-> s.score, score_after |-> after.score,
         count_before |-> s.combo_count, count_after |-> after.combo_count,
         timer_before |-> s.combo_timer, timer_after |-> after.combo_timer,
         special_fx |-> (is_good(item) \/ is_special(item))
                          /\ SpecialVisual(counted),
         off_screen |-> is_off_screen(item)]
  IN [after EXCEPT
        !.items = IF InList(after.items, item)
                  THEN RemoveFirst(after.items, item) ELSE after.items,
        !.log.catches = Append(s.log.catches, entry)]

\* a miss rescheduling from the old spawn time (faulty variant)
SpecialMissed_from_schedule(s, elapsed) ==
  [s EXCEPT !.special_missed = TRUE,
            !.next_special_spawn_time =
               s.next_special_spawn_time + SPECIAL_RETRY * 1000,
            !.special_spawned_this_interval = FALSE,
            !.log.missed = s.log.missed + 1]

\* a miss that schedules the retry but leaves the interval's flag set
\* (faulty variant)
SpecialMissed_keeps_flag(s, elapsed) ==
  [s EXCEPT !.special_missed = TRUE,
            !.next_special_spawn_time = elapsed + SPECIAL_RETRY * 1000,
            !.log.missed = s.log.missed + 1]

\* GameManager.update: a special item found off screen and not caught
SpecialMissed(s, elapsed) ==
  [s EXCEPT !.special_missed = TRUE,
            !.next_special_spawn_time = elapsed + SPECIAL_RETRY * 1000,
            !.special_spawned_this_interval = FALSE,
            !.log.missed = s.log.missed + 1]

\* the item loop's body with the catch of a Special item rolling the
\* schedule forward by the least delay (faulty variant)
ItemStep_rolls(s, k, old, p, elapsed) ==
  LET moved == ItemUpdate(old)
      hit == ~moved.caught /\ colliderect(ItemRect(moved), PlayerRect(p))
      item == [moved EXCEPT !.caught = moved.caught \/ hit]
      s0 == [s EXCEPT !.items = SubSeq(s.items, 1, k) \o <<item>>
                                  \o SubSeq(s.items, k + 2, Len(s.items)),
                      !.log.seen = Append(s.log.seen, moved)]
      caught == handle_catch(s0, item, p)
      s1 == IF hit
            THEN IF is_special(item)
                 THEN [caught EXCEPT
                         !.special_spawned_this_interval = FALSE,
                         !.next_special_spawn_time = elapsed + 20 * 1000]
                 ELSE caught
            ELSE s0
      s2 == IF is_special(item) /\ is_off_screen(item) /\ ~item.caught
            THEN SpecialMissed(s1, elapsed) ELSE s1
  IN IF is_off_screen(item)
     THEN IF InList(s2.items, item)
          THEN [s2 EXCEPT !.items = RemoveFirst(s2.items, item)]
          ELSE [s2 EXCEPT !.raised = "ValueError"]
     ELSE s2

\* the item loop's body honouring one catch per tick only (faulty variant)
ItemStep_first_only(s, k, old, p, elapsed) ==
  LET moved == ItemUpdate(old)
      hit == /\ ~moved.caught
             /\ colliderect(ItemRect(moved), PlayerRect(p))
             /\ s.log.catches = << >>
      item == [moved EXCEPT !.caught = moved.caught \/ hit]
      s0 == [s EXCEPT !.items = SubSeq(s.items, 1, k) \o <<item>>
                                  \o SubSeq(s.items, k + 2, Len(s.items)),
                      !.log.seen = Append(s.log.seen, moved)]
      s1 == IF hit THEN handle_catch(s0, item, p) ELSE s0
      s2 == IF is_special(item) /\ is_off_screen(item) /\ ~item.caught
            THEN SpecialMissed(s1, elapsed) ELSE s1
  IN IF is_off_screen(item)
     THEN IF InList(s2.items, item)
          THEN [s2 EXCEPT !.items = RemoveFirst(s2.items, item)]
          ELSE [s2 EXCEPT !.raised = "ValueError"]
     ELSE s2

\* GameManager.update: the body of "for item in self.items[:]" for the
\* item that follows the k processed items still in the list
ItemStep(s, k, old, p, elapsed) ==
  LET moved == ItemUpdate(old)
      hit == ~moved.caught /\ colliderect(ItemRect(moved), PlayerRect(p))
      item == [moved EXCEPT !.caught = moved.caught \/ hit]
      s0 == [s EXCEPT !.items = SubSeq(s.items, 1, k) \o <<item>>
                                  \o SubSeq(s.items, k + 2, Len(s.items)),
                      !.log.seen = Append(s.log.seen, moved)]
      s1 == IF hit THEN handle_catch(s0, item, p) ELSE s0
      s2 == IF is_special(item) /\ is_off_screen(item) /\ ~item.caught
            THEN SpecialMissed(s1, elapsed) ELSE s1
  IN IF is_off_screen(item)
     THEN IF InList(s2.items, item)
          THEN [s2 EXCEPT !.items = RemoveFirst(s2.items, item)]
          ELSE [s2 EXCEPT !.raised = "ValueError"]
     ELSE s2

\* GameManager.update: the loop over the copy self.items[:]
RECURSIVE ProcessItems(_, _, _, _, _)
ProcessItems(s, k, copy, p, elapsed) ==
  IF copy = << >> \/ s.raised # NoError THEN s
  ELSE LET n == Len(s.items)
           s1 == ItemStep(s, k, Head(copy), p, elapsed)
       IN ProcessItems(s1, IF Len(s1.items) = n THEN k + 1 ELSE k,
                       Tail(copy), p, elapsed)

\* the rollover without the 10 s wait past the spawn time (faulty variant)
Rollover_early(s, elapsed) ==
  IF /\ s.raised = NoError
     /\ s.special_spawned_this_interval
     /\ elapsed >= s.next_special_spawn_time
  THEN { [s EXCEPT !.next_special_spawn_time = elapsed + d,
                   !.special_spawned_this_interval = FALSE] :
           d \in SpecialDelays }
  ELSE {s}

\* GameManager.update: the interval's rollover, one outcome per draw
Rollover(s, elapsed) ==
  IF /\ s.raised = NoError
     /\ s.special_spawned_this_interval
     /\ elapsed >= s.next_special_spawn_time + SPECIAL_RETRY * 1000
  THEN { [s EXCEPT !.next_special_spawn_time = elapsed + d,
                   !.special_spawned_this_interval = FALSE] :
           d \in SpecialDelays }
  ELSE {s}

\* GameManager.update(player) when the clock reads now and
\* get_difficulty_params() returns params: every outcome
update_paced(g, p, now, params) ==
  LET s == [f \in GMFields \cup {"log"} |->
              IF f = "log" THEN EmptyLog ELSE g[f]]
      dt == now - g.last_frame_time
      timed == [s EXCEPT !.last_frame_time = now]
      frames == spawn_interval_frames(params.spawn_interval)
      paced == [EffectStep(ComboDecay(timed, dt), dt) EXCEPT
                  !.speed_multiplier = params.speed, !.log.ran = TRUE]
  IN IF g.game_over THEN {s}
     ELSE IF get_remaining_time(now) <= 0
     THEN {TimeUp(timed)}
     ELSE UNION { Rollover(ProcessItems(r, 0, r.items, p, now), now) :
                    r \in UNION { RegularSpawn(q, frames) :
                                    q \in SpecialSpawn(paced, now) } }

\* GameManager.update(player) when the clock reads now: every outcome
update(g, p, now) == update_paced(g, p, now, get_difficulty_params(now))

(* ------------------------------ the loop ------------------------------ *)
Init ==
  /\ clock = 0
  /\ gm \in {GMInit(d) : d \in SpecialDelays}
  /\ player = PlayerInit
  /\ log = EmptyLog
  /\ probe = None
  /\ awaited = None
  /\ sprite = None
  /\ hand = None
  /\ app = None

\* the miss that awaits its retry after an update() that did l at now:
\* the spawn step comes before the item loop, so a miss in the same tick
\* is later than the spawn
Awaited(a, l, now) ==
  IF l.missed > 0 THEN <<now>>
  ELSE IF \E i \in 1 .. Len(l.spawned) : l.spawned[i] = ITEM_SPECIAL
       THEN None
       ELSE a

\* main's PLAYING branch up to game_manager.update(player), dt ms after
\* the previous frame
PlayingBranch(dt, hand_x) ==
  /\ gm.raised = NoError
  /\ clock < (GAME_DURATION + Overtime) * 1000
  /\ clock' = clock + dt
  /\ player' = PlayerUpdate(IF hand_x # None
                            THEN update_target(player, Obj(hand_x))
                            ELSE player)
  /\ \E r \in update(gm, player', clock') :
       /\ gm' = [f \in GMFields |-> r[f]]
       /\ log' = r.log
       /\ awaited' = Awaited(awaited, r.log, clock')
  /\ hand' = hand_x
  /\ UNCHANGED <<probe, sprite>>

\* one frame of the PLAYING state with the session driven alone
PlayingFrame(dt, hand_x) ==
  /\ PlayingBranch(dt, hand_x)
  /\ UNCHANGED app

Next == \E dt \in DtSet, hand_x \in HandSet : PlayingFrame(dt, hand_x)

Spec == Init /\ [][Next]_vars

\* the loop at its nominal rate: clock.tick(FPS) paces every frame
FRAME_MS == 1000 \div FPS

NextFrames ==
  /\ clock < MaxFrames * FRAME_MS
  /\ \E hand_x \in SteadyHand : PlayingFrame(FRAME_MS, hand_x)

SpecFrames == Init /\ [][NextFrames]_vars

(* ---------------------- the difficulty curve alone -------------------- *)
\* get_difficulty_params() called when the clock reads elapsed ms
Probe(elapsed) ==
  <<[elapsed |-> elapsed, params |-> get_difficulty_params(elapsed)]>>

\* a first call, at a half second between Before seconds ahead of the
\* round's start and Overtime seconds past its end
FirstCall ==
  /\ probe = None
  /\ \E k \in (0 - Before) .. (GAME_DURATION + Overtime - 1) :
       probe' = Probe(k * 1000 + 500)
  /\ UNCHANGED <<clock, gm, player, log, awaited, sprite, hand, app>>

\* the next call, one millisecond later, up to the next half second
NextMillisecond ==
  /\ probe # None
  /\ (Obj(probe).elapsed + 1) % 1000 # 500
  /\ probe' = Probe(Obj(probe).elapsed + 1)
  /\ UNCHANGED <<clock, gm, player, log, awaited, sprite, hand, app>>

NextDifficulty == FirstCall \/ NextMillisecond

SpecDifficulty == Init /\ [][NextDifficulty]_vars

(* ------------------- a degenerate spawn interval ---------------------- *)
\* spawn_interval_seconds of -1, -0.01, 0 and 0.01: int(. * 30) is -30 or 0
DegenerateIntervals == {0 - ONE, 0 - ONE \div 100, 0, ONE \div 100}

\* one frame of the PLAYING state at the nominal rate in which
\* get_difficulty_params() hands update() the given spawn interval
DegenerateFrame(interval, hand_x) ==
  /\ gm.raised = NoError
  /\ clock < MaxDegenerate * FRAME_MS
  /\ clock' = clock + FRAME_MS
  /\ player' = PlayerUpdate(IF hand_x # None
                            THEN update_target(player, Obj(hand_x))
                            ELSE player)
  /\ LET params == [get_difficulty_params(clock') EXCEPT
                      !.spawn_interval = interval]
     IN /\ probe' = <<[elapsed |-> clock', params |-> params]>>
        /\ \E r \in update_paced(gm, player', clock', params) :
             /\ gm' = [f \in GMFields |-> r[f]]
             /\ log' = r.log
             /\ awaited' = Awaited(awaited, r.log, clock')
  /\ hand' = hand_x
  /\ UNCHANGED <<sprite, app>>

NextDegenerate ==
  \E interval \in DegenerateIntervals, hand_x \in SteadyHand :
    DegenerateFrame(interval, hand_x)

SpecDegenerate == Init /\ [][NextDegenerate]_vars

(* ----------------------------- a slow loop ---------------------------- *)
\* time between two frames of a loop that falls far behind its nominal
\* rate (clock.tick(FPS) only caps the rate), in ms
SlowDtSet == {8000, 10000}

\* frames of the PLAYING state that take 8 s or 10 s each: items move once
\* per frame, the special schedule runs on the wall clock
NextSlow == \E dt \in SlowDtSet, hand_x \in HandSet : PlayingFrame(dt, hand_x)

SpecSlow == Init /\ [][NextSlow]_vars

(* -------------------------- a camera-paced loop ------------------------ *)
\* time between two frames when cap.read() in get_hand_position() holds
\* the loop to the rate of a 12.5 FPS camera, in ms
CameraDtSet == {80}

NextCamera ==
  \E dt \in CameraDtSet, hand_x \in SteadyHand :
    /\ clock < MaxCameraFrames * dt
    /\ PlayingFrame(dt, hand_x)

SpecCamera == Init /\ [][NextCamera]_vars

(* ------------------- a hand that leaves the picture ------------------- *)
\* hand_x as main can read it: a landmark x of -0.5, 0, 0.5, 1 or 1.5 (the
\* landmark of a hand partly out of the picture lies outside [0, 1]), in
\* tenths, and None, the value main tests for before update_target
TrackSet == {None, <<0 - 5>>, <<0>>, <<5>>, <<10>>, <<15>>}

NextTracking ==
  /\ clock < MaxTrackFrames * FRAME_MS
  /\ \E hand_x \in TrackSet : PlayingFrame(FRAME_MS, hand_x)

SpecTracking == Init /\ [][NextTracking]_vars

(* --------------------------- one item alone --------------------------- *)
\* random.uniform(-10, 10), the initial rotation, in millionths of a degree
Rotations == {0 - 10 * 1000 * 1000, 0, 7500 * 1000}

\* the initial angular_velocity by item type, in thousandths of a degree
\* per second: uniform(-30, 30), uniform(-60, 60), uniform(-20, 20)
AngularVelocities(item_type) ==
  CASE item_type = ITEM_GOOD -> {0 - 30000, 12500}
    [] item_type = ITEM_BAD -> {0 - 60000, 60000}
    [] item_type = ITEM_SPECIAL -> {0 - 20000, 20000}

\* rotation_friction by item type, in thousandths
Frictions(item_type) ==
  CASE item_type = ITEM_GOOD -> {985, 995}
    [] item_type = ITEM_BAD -> {970, 985}
    [] item_type = ITEM_SPECIAL -> {995}

\* the dt that update() hands to Item.update, in ms
SpriteDts == {FRAME_MS, 4000}

\* Item.__init__ with all its fields, at the first difficulty stage
NewSprite ==
  /\ sprite = None
  /\ \E t \in {ITEM_GOOD, ITEM_BAD, ITEM_SPECIAL} :
       \E b \in BaseSpeeds, x \in SpawnXs(t), r \in Rotations,
          v \in AngularVelocities(t), f \in Frictions(t) :
         sprite' = <<[c \in DOMAIN NewItem(t, stages[1].speed, b, x)
                          \cup {"rotation", "angular_velocity",
                                "rotation_friction"} |->
                        CASE c = "rotation" -> r
                          [] c = "angular_velocity" -> v
                          [] c = "rotation_friction" -> f
                          [] OTHER -> NewItem(t, stages[1].speed, b, x)[c]]>>
  /\ UNCHANGED <<clock, gm, player, log, probe, awaited, hand, app>>

\* Item.update(dt) on an item that is still on the screen
SpriteUpdate ==
  /\ sprite # None
  /\ ~is_off_screen(Obj(sprite))
  /\ \E dt \in SpriteDts : sprite' = <<Item_update(Obj(sprite), dt)>>
  /\ UNCHANGED <<clock, gm, player, log, probe, awaited, hand, app>>

NextItem == NewSprite \/ SpriteUpdate

SpecItem == Init /\ [][NextItem]_vars

(* ---------------------- displays of another height -------------------- *)
\* Player.__init__ on a display of the given height: Player reads the
\* runtime SCREEN_HEIGHT that main() sets, item.py keeps utils.py's
\* default, which it imported before main() ran
PlayerOn(display_height) ==
  [PlayerInit EXCEPT !.y = display_height - PLATE_OFFSET]

\* the display height that the Player was built for
DisplayHeight(p) == p.y + PLATE_OFFSET

InitOn(display_height) ==
  /\ clock = 0
  /\ gm \in {GMInit(d) : d \in SpecialDelays}
  /\ player = PlayerOn(display_height)
  /\ log = EmptyLog
  /\ probe = None
  /\ awaited = None
  /\ sprite = None
  /\ hand = None
  /\ app = None

\* a display higher than the default height (1920x1200 against 1080)
SpecTall == InitOn(SCREEN_HEIGHT + Taller) /\ [][Next]_vars

\* a display lower than the default height (1366x768 against 1080)
SpecShort == InitOn(SCREEN_HEIGHT - Shorter) /\ [][Next]_vars

(* ----------------------------- the main loop -------------------------- *)
\* GameState
START_MENU == 0
NAME_ENTRY == 1
COUNTDOWN == 2
PLAYING == 3
GAME_OVER == 4

\* seconds of GAME_OVER before the end screen, in ms
game_over_delay_duration == 1000

\* the KEYDOWN event of a frame (NoKey: no event)
NoKey == "NoKey"
K_SPACE == "K_SPACE"
K_n == "K_n"
K_m == "K_m"
K_RETURN == "K_RETURN"
K_ESCAPE == "K_ESCAPE"

\* the name used when nothing was typed
DefaultName == <<"P", "l", "a", "y", "e", "r">>

\* sorted(scores, key=score, reverse=True): stable, the entries of equal
\* score keep their order
RECURSIVE sorted_scores(_)
sorted_scores(scores) ==
  IF scores = << >> THEN << >>
  ELSE LET n == Len(scores)
           head == sorted_scores(SubSeq(scores, 1, n - 1))
           e == scores[n]
           k == Cardinality({i \in 1 .. Len(head) : head[i].score >= e.score})
       IN SubSeq(head, 1, k) \o <<e>> \o SubSeq(head, k + 1, Len(head))

\* a leaderboard that keeps every score (faulty variant)
top_five_uncut(scores) == sorted_scores(scores)

\* sorted(...)[:5]
top_five(scores) ==
  LET l == sorted_scores(scores) IN SubSeq(l, 1, Min2(5, Len(l)))

\* load_leaderboard(), scores.json holding the list file (absent: empty)
load_leaderboard(file) == top_five(file)

\* save_leaderboard(scores): the list that scores.json holds afterwards
save_leaderboard(scores) == top_five(scores)

\* EndScreen.__init__
NewEndScreen(score, player_name) ==
  [score |-> score, player_name |-> player_name,
   phase |-> "transition", timer |-> 0, buttons_shown |-> FALSE]

\* EndScreen.update(dt): the phases
EndScreenUpdate(e, dt) ==
  LET t == e.timer + dt
      timed == [e EXCEPT !.timer = t]
      to(phase) == [e EXCEPT !.phase = phase, !.timer = 0]
  IN CASE e.phase = "transition" ->
            IF t < 1000 THEN timed ELSE to("fade_in")
       [] e.phase = "fade_in" ->
            IF t >= 300 THEN to("score_reveal") ELSE timed
       [] e.phase = "score_reveal" ->
            IF t >= 1500 THEN to("leaderboard_check") ELSE timed
       [] e.phase = "leaderboard_check" ->
            IF t >= 1000 THEN to("buttons") ELSE timed
       [] e.phase = "buttons" ->
            IF t >= 800 THEN [timed EXCEPT !.buttons_shown = TRUE]
            ELSE timed

\* EndScreen.handle_input({key: True})
handle_input(e, key) ==
  IF ~e.buttons_shown THEN None
  ELSE CASE key = K_SPACE -> <<"play_again">>
         [] key = K_n -> <<"change_name">>
         [] key = K_m -> <<"main_menu">>
         [] OTHER -> None

\* main: the event loop of one frame that finds the KEYDOWN event key
\* when the clock reads a.ticks
handle_key(a, key) ==
  LET quit == [a EXCEPT !.running = (key # K_ESCAPE)]
  IN CASE quit.game_state = START_MENU ->
            CASE key = K_SPACE ->
                   [quit EXCEPT !.game_state = NAME_ENTRY,
                                !.name_input = quit.last_name]
              [] key = K_n ->
                   [quit EXCEPT !.game_state = NAME_ENTRY,
                                !.name_input = << >>]
              [] OTHER -> quit
       [] quit.game_state = NAME_ENTRY ->
            CASE key = K_RETURN ->
                   LET name == IF Len(quit.name_input) > 0
                               THEN quit.name_input ELSE DefaultName
                   IN [quit EXCEPT !.player_name = name,
                                   !.last_name = name,
                                   !.countdown_start_time = quit.ticks,
                                   !.game_state = COUNTDOWN]
              [] key \in {K_n, K_m, K_SPACE} /\ Len(quit.name_input) < 15 ->
                   [quit EXCEPT !.name_input =
                      Append(quit.name_input,
                             CASE key = K_n -> "N" [] key = K_m -> "M"
                               [] OTHER -> " ")]
              [] OTHER -> quit
       [] quit.game_state = GAME_OVER /\ quit.end_screen # None ->
            LET action == handle_input(Obj(quit.end_screen), key)
            IN CASE action = <<"play_again">> ->
                      [quit EXCEPT !.countdown_start_time = quit.ticks,
                                   !.game_state = COUNTDOWN,
                                   !.end_screen = None]
                 [] action = <<"change_name">> ->
                      [quit EXCEPT !.game_state = NAME_ENTRY,
                                   !.name_input = << >>,
                                   !.end_screen = None]
                 [] action = <<"main_menu">> ->
                      [quit EXCEPT !.game_state = START_MENU,
                                   !.end_screen = None]
                 [] OTHER -> quit
       [] OTHER -> quit

\* main() before its loop, with the last name that settings.json holds
\* and the list that scores.json holds
MainInit(last_name, scores) ==
  [running |-> TRUE,
   game_state |-> START_MENU,
   end_screen |-> None,
   game_over_delay_timer |-> 0,
   last_end_time |-> None,
   ticks |-> 0,
   countdown_start_time |-> 0,
   name_input |-> last_name,
   player_name |-> << >>,
   last_name |-> last_name,
   scores_json |-> scores,
   rounds |-> 0,
   ended_at |-> None,
   created_at |-> None,
   appended |-> None]

\* the start of the frame: the clock moves on by dt, then the event loop
\* handles the frame's key
Events(key, dt) ==
  handle_key([app EXCEPT !.ticks = app.ticks + dt], key)

\* a frame that leaves the session alone
NoSession == UNCHANGED <<clock, gm, player, log, probe, awaited, sprite, hand>>

\* a frame whose state logic is the START_MENU or the NAME_ENTRY branch
MenuFrame(key, dt) ==
  /\ app.running
  /\ LET a == Events(key, dt)
     IN /\ a.game_state \in {START_MENU, NAME_ENTRY}
        /\ Len(a.name_input) <= MaxName
        /\ app' = a
  /\ NoSession

\* a frame whose state logic is the COUNTDOWN branch
CountdownFrame(key, dt) ==
  /\ app.running
  /\ LET a == Events(key, dt)
         countdown_timer == a.ticks - a.countdown_start_time
     IN /\ a.game_state = COUNTDOWN
        /\ IF countdown_timer < 3000
           THEN /\ app' = a
                /\ NoSession
           ELSE /\ a.rounds < MaxRounds
                /\ app' = [a EXCEPT !.game_state = PLAYING,
                                    !.rounds = a.rounds + 1]
                /\ clock' = 0
                /\ gm' \in {GMInit(d) : d \in SpecialDelays}
                /\ player' = PlayerInit
                /\ log' = EmptyLog
                /\ awaited' = None
                /\ hand' = None
                /\ UNCHANGED <<probe, sprite>>

\* main's PLAYING branch after game_manager.update(player) has left the
\* session g
AfterUpdate(a, g) ==
  IF g.game_over
  THEN LET entry == [name |-> a.player_name, score |-> g.score]
           leaderboard == Append(load_leaderboard(a.scores_json), entry)
       IN [a EXCEPT !.scores_json = save_leaderboard(leaderboard),
                    !.game_over_delay_timer = 0,
                    !.game_state = GAME_OVER,
                    !.ended_at = <<a.ticks>>,
                    !.appended = <<entry>>]
  ELSE a

\* a frame whose state logic is the PLAYING branch
PlayingMainFrame(key, dt, hand_x) ==
  /\ app.running
  /\ LET a == Events(key, dt)
     IN /\ a.game_state = PLAYING
        /\ PlayingBranch(dt, hand_x)
        /\ app' = AfterUpdate(a, gm')

\* a frame whose state logic is the GAME_OVER branch
GameOverFrame(key, dt) ==
  /\ app.running
  /\ LET a == Events(key, dt)
         current_time == a.ticks
         elapsed == current_time - (IF a.last_end_time = None
                                    THEN current_time
                                    ELSE Obj(a.last_end_time))
         b == [a EXCEPT !.last_end_time = <<current_time>>]
         timer == a.game_over_delay_timer + elapsed
     IN /\ a.game_state = GAME_OVER
        /\ a.end_screen # None /\ Obj(a.end_screen).buttons_shown
             => Obj(a.end_screen).timer < 800 + MaxLinger * dt
        /\ app' = IF a.end_screen = None
                  THEN IF timer >= game_over_delay_duration
                       THEN [b EXCEPT
                               !.game_over_delay_timer = timer,
                               !.end_screen =
                                 <<NewEndScreen(gm.score, a.player_name)>>,
                               !.created_at = <<current_time>>]
                       ELSE [b EXCEPT !.game_over_delay_timer = timer]
                  ELSE [b EXCEPT !.end_screen =
                          <<EndScreenUpdate(Obj(a.end_screen), elapsed)>>]
  /\ NoSession

\* the KEYDOWN event that a frame may find in each state
KeysIn(game_state) ==
  CASE game_state = START_MENU -> {K_SPACE, K_n, K_ESCAPE}
    [] game_state = NAME_ENTRY -> {K_RETURN, K_n, K_ESCAPE}
    [] game_state = COUNTDOWN -> {NoKey}
    [] game_state = PLAYING -> {NoKey, K_SPACE}
    [] game_state = GAME_OVER -> {NoKey, K_SPACE, K_n, K_m, K_ESCAPE}
\* time between two frames in each state, in ms: a round paced so slowly
\* that it takes five frames, an end screen at two frames a second
DtIn(game_state) ==
  CASE game_state \in {START_MENU, NAME_ENTRY, COUNTDOWN} -> {1000}
    [] game_state = PLAYING -> {12000}
    [] game_state = GAME_OVER -> {500}
\* what scores.json holds when main() starts: nothing, or five scores
Boards ==
  {<< >>,
   [i \in 1 .. 5 |-> [name |-> <<"Z">>, score |-> IF i < 5 THEN 50 ELSE 0]]}

InitMain ==
  /\ clock = 0
  /\ gm = GMInit(0)
  /\ player = PlayerInit
  /\ log = EmptyLog
  /\ probe = None
  /\ awaited = None
  /\ sprite = None
  /\ hand = None
  /\ app \in {MainInit(<< >>, scores) : scores \in Boards}

NextMain ==
  \/ \E key \in KeysIn(app.game_state), dt \in DtIn(app.game_state) :
       MenuFrame(key, dt)
  \/ \E key \in KeysIn(app.game_state), dt \in DtIn(app.game_state) :
       CountdownFrame(key, dt)
  \/ \E key \in KeysIn(app.game_state), dt \in DtIn(app.game_state),
        hand_x \in SteadyHand :
       PlayingMainFrame(key, dt, hand_x)
  \/ \E key \in KeysIn(app.game_state), dt \in DtIn(app.game_state) :
       GameOverFrame(key, dt)

SpecMain == InitMain /\ [][NextMain]_vars

(* ------------------------------- claims ------------------------------- *)
\* the session state that a finished round must leave alone
Session(g) ==
  <<g.score, g.items, g.combo_count, g.combo_timer, g.spawn_timer,
    g.next_special_spawn_time, g.special_spawned_this_interval,
    g.special_missed, g.special_items_spawned>>

\* C1: every update() that ends with the session terminal, the one that
\* detects remaining time <= 0 included, leaves score, items, combo,
\* spawn timer and special schedule as they were, runs no spawn, catch,
\* miss or combo decay, and game_over never goes back to false.
C1_TerminalFrozen ==
  [][ /\ gm.game_over => gm'.game_over
      /\ gm'.game_over =>
           /\ Session(gm') = Session(gm)
           /\ ~log'.ran /\ ~log'.expired /\ log'.missed = 0
           /\ log'.catches = << >> /\ log'.spawned = << >> ]_vars

\* C1 witness: an update() ran after the one that ended the round, with
\* two specials caught and the combo window still open
C1_Witness ==
  /\ gm.game_over
  /\ clock > gm.last_frame_time
  /\ gm.score > 50
  /\ gm.combo_timer > 0

\* C2: game_over is false after every update() that reads elapsed < 60 s
\* and true after the first one that reads elapsed >= 60 s; remaining time
\* is never negative; the flip happens once, in the first frame at or past
\* 60 s.
C2_RoundEnds ==
  [][ /\ gm'.game_over = (gm.game_over \/ clock' >= GAME_DURATION * 1000)
      /\ get_remaining_time(clock') >= 0
      /\ (clock' < GAME_DURATION * 1000 => get_remaining_time(clock') > 0)
      /\ (~gm.game_over /\ gm'.game_over =>
            clock < GAME_DURATION * 1000 /\ clock' >= GAME_DURATION * 1000)
      /\ (gm.game_over => gm'.game_over) ]_vars

\* C2 witness: the round ended in the frame that read exactly 60 s
C2_Witness == gm.game_over /\ gm.last_frame_time = GAME_DURATION * 1000

\* the catches of the last update(), in the order handle_catch ran
Catches == {log.catches[i] : i \in 1 .. Len(log.catches)}

GoodOrSpecial(c) == c.type \in {ITEM_GOOD, ITEM_SPECIAL}

\* C3: every catch of a Good or Special item leaves combo_count one above
\* what it was before the catch and combo_timer at the full 4.0 s window,
\* whatever was left of the window; if it is the last catch of the tick the
\* session holds these values after the tick.
C3_GoodCatchCombo ==
  /\ \A c \in Catches :
       GoodOrSpecial(c) =>
         /\ c.count_after = c.count_before + 1
         /\ c.timer_after = combo_max_time * 1000
  /\ (log.catches # << >> /\ GoodOrSpecial(log.catches[Len(log.catches)])) =>
       /\ gm.combo_timer = combo_max_time * 1000
       /\ gm.combo_count = log.catches[Len(log.catches)].count_before + 1

\* C3 witness: a Good catch inside a running window (combo already 2 or
\* more, part of the 4 s used up)
C3_Witness ==
  \E c \in Catches :
    /\ c.type = ITEM_GOOD
    /\ c.count_before >= 2
    /\ c.timer_before > 0 /\ c.timer_before < combo_max_time * 1000
    /\ gm.combo_count = c.count_before + 1

\* C4: every catch of a Bad item leaves combo_count = 0 and combo_timer = 0,
\* whatever the count and the remaining window before it; if it is the last
\* catch of the tick the session holds (0, 0) after the tick.
C4_BadCatchResets ==
  /\ \A c \in Catches :
       c.type = ITEM_BAD => c.count_after = 0 /\ c.timer_after = 0
  /\ (log.catches # << >> /\ log.catches[Len(log.catches)].type = ITEM_BAD) =>
       gm.combo_count = 0 /\ gm.combo_timer = 0

\* C4 witness: Good then Bad inside the window: the Bad catch finds combo 1
\* with time left and score 10, and leaves combo 0
C4_Witness ==
  \E c \in Catches :
    /\ c.type = ITEM_BAD
    /\ c.count_before = 1 /\ c.timer_before > 0
    /\ c.score_before = 10
    /\ gm.combo_count = 0 /\ gm.combo_timer = 0

\* C5: combo_count changes only by +1 on a Good/Special catch or by a reset
\* to 0 on a Bad catch or on the timer's expiry.  In every update() that
\* runs, a timer above 0 loses that frame's dt; the combo is reset to (0, 0)
\* exactly when that brings the timer to <= 0, and otherwise the count is
\* kept; the catches of the tick then start from these values and each
\* changes the count by +1 (Good/Special) or to 0 (Bad).  With no catch the
\* tick ends with the decayed values.
C5_ComboChanges ==
  [][ LET dt == clock' - gm.last_frame_time
          runs_out == gm.combo_timer > 0 /\ gm.combo_timer - dt <= 0
          count0 == IF runs_out THEN 0 ELSE gm.combo_count
          timer0 == IF runs_out THEN 0
                    ELSE IF gm.combo_timer > 0 THEN gm.combo_timer - dt
                    ELSE gm.combo_timer
          cs == log'.catches
          n == Len(cs)
      IN /\ ~log'.ran =>
              /\ gm'.combo_count = gm.combo_count
              /\ gm'.combo_timer = gm.combo_timer
         /\ log'.ran =>
              /\ log'.expired = runs_out
              /\ n = 0 =>
                   /\ gm'.combo_count = count0
                   /\ gm'.combo_timer = timer0
              /\ n > 0 =>
                   /\ cs[1].count_before = count0
                   /\ cs[1].timer_before = timer0
                   /\ \A i \in 1 .. (n - 1) :
                        cs[i + 1].count_before = cs[i].count_after
                   /\ \A i \in 1 .. n :
                        cs[i].count_after =
                          IF GoodOrSpecial(cs[i]) THEN cs[i].count_before + 1
                          ELSE 0
                   /\ gm'.combo_count = cs[n].count_after ]_vars

\* C5 witness: a tick without a catch in which the window opened by an
\* earlier catch ran out and the combo was reset
C5_Witness ==
  /\ log.ran /\ log.expired /\ log.catches = << >>
  /\ gm.combo_count = 0 /\ gm.combo_timer = 0
  /\ gm.score >= 20

\* the fixed value of a catch, per kind of item
KindValue(type) ==
  CASE type = ITEM_GOOD -> 10
    [] type = ITEM_BAD -> 0 - 15
    [] type = ITEM_SPECIAL -> 50

\* what a catch added to the score beyond the item's own value
Bonus(c) == c.score_after - c.score_before - KindValue(c.type)

\* C6: milestone bonuses are edge-triggered.  A Good/Special catch that
\* takes combo_count from 4 to 5 adds exactly 10 beyond the item's value,
\* one that takes it from 9 to 10 adds exactly 30, every other catch adds
\* nothing beyond the item's value, and a tick without a catch that starts
\* with the count at or above a milestone leaves the score alone.
C6_MilestoneBonus ==
  [][ /\ \A i \in 1 .. Len(log'.catches) :
           LET c == log'.catches[i]
           IN Bonus(c) =
                IF GoodOrSpecial(c) /\ c.count_before = 4 /\ c.count_after = 5
                THEN 10
                ELSE IF GoodOrSpecial(c) /\ c.count_before = 9
                                         /\ c.count_after = 10
                THEN 30
                ELSE 0
      /\ (log'.catches = << >> /\ gm.combo_count >= 5) =>
           gm'.score = gm.score ]_vars

\* C6 witness: the fifth Good catch in a row from score 0: combo 5, score
\* 40 + 10 + 10 = 60
C6_Witness ==
  /\ gm.combo_count = 5 /\ gm.score = 60
  /\ \E c \in Catches :
       /\ c.type = ITEM_GOOD
       /\ c.count_before = 4 /\ c.count_after = 5
       /\ c.score_before = 40 /\ c.score_after = 60

\* C7: the score changes only in catches.  A tick without a catch leaves it
\* unchanged; the catches of a tick start from the score before the tick,
\* follow one another and end at the score after the tick; each adds its
\* kind's value (Good +10, Bad -15, Special +50) once, plus the milestone
\* bonus only when a Good/Special catch brings the combo to 5 or to 10; the
\* score is not kept at or above zero.
C7_ScoreOnlyOnCatch ==
  [][ LET cs == log'.catches
          n == Len(cs)
      IN /\ n = 0 => gm'.score = gm.score
         /\ n > 0 =>
              /\ cs[1].score_before = gm.score
              /\ \A i \in 1 .. (n - 1) :
                   cs[i + 1].score_before = cs[i].score_after
              /\ gm'.score = cs[n].score_after
         /\ \A i \in 1 .. n :
              /\ Bonus(cs[i]) \in {0, 10, 30}
              /\ cs[i].type = ITEM_BAD => Bonus(cs[i]) = 0
              /\ cs[i].count_after \notin {5, 10} => Bonus(cs[i]) = 0 ]_vars

\* C7 witness: Good then Bad from 0: the Bad catch takes the score from 10
\* to -5
C7_Witness ==
  /\ gm.score = 0 - 5
  /\ \E c \in Catches :
       c.type = ITEM_BAD /\ c.score_before = 10 /\ c.score_after = 0 - 5

\* C8 as stated: the combo's special visual fires only on the catch that
\* moves combo_count from 9 to 10.
C8_OnlyOnEntering10 ==
  \A c \in Catches : c.special_fx => c.count_before = 9 /\ c.count_after = 10

\* C8, amended: the combo's special visual (celebration burst, confetti
\* sound) fires on exactly the Good/Special catches that leave combo_count
\* at 10 or more: on entering 10 and again on each catch at 11, 12, ...
\* while the combo lasts, never on a catch that leaves the count below 10.
C8_SpecialVisualFrom10 ==
  \A c \in Catches :
    c.special_fx <=> (GoodOrSpecial(c) /\ c.count_after >= 10)

\* C8 witness: the catch that takes the combo from 10 to 11 fires it again
C8_Witness ==
  \E c \in Catches :
    c.count_before = 10 /\ c.count_after = 11 /\ c.special_fx

\* the number of items of a kind in a sequence of kinds
RECURSIVE CountKind(_, _)
CountKind(kinds, type) ==
  IF kinds = << >> THEN 0
  ELSE (IF Head(kinds) = type THEN 1 ELSE 0) + CountKind(Tail(kinds), type)

\* the kinds of the live items, in list order
LiveKinds(g) == [i \in 1 .. Len(g.items) |-> g.items[i].type]

\* a Special item that the tick's kinematics step takes past the bottom
\* bound without the plate touching it
FallsUncaught(item, p) ==
  /\ item.type = ITEM_SPECIAL
  /\ ~item.caught
  /\ item.y + item.speed > SCREEN_HEIGHT * ONE
  /\ ~colliderect([x |-> item.x, y |-> Trunc(item.y + item.speed, ONE),
                   w |-> item.width, h |-> item.height],
                  [x |-> p.rect_x, y |-> p.y, w |-> p.width, h |-> p.height])

\* C9: in a tick that is not terminal, with elapsed >= next_special_spawn_time
\* and special_spawned_this_interval false, exactly one Special item is
\* created and is in the live set after the tick, the flag is true and
\* special_items_spawned is one more; in every other tick no Special item is
\* created and the counter is unchanged.  The regular stream does not see
\* it: spawn_timer advances by one, or restarts at 0 with a regular item
\* created, in the tick of a forced spawn as in any other.
C9_ForcedSpecialSpawn ==
  [][ LET due == /\ log'.ran
                 /\ clock' >= gm.next_special_spawn_time
                 /\ ~gm.special_spawned_this_interval
          made == CountKind(log'.spawned, ITEM_SPECIAL)
          regular == Len(log'.spawned) - made
      IN /\ due =>
              /\ made = 1
              /\ gm'.special_spawned_this_interval
              /\ gm'.special_items_spawned = gm.special_items_spawned + 1
              /\ Len(gm'.items) > 0
              /\ \E i \in 1 .. Len(gm'.items) :
                   /\ gm'.items[i].type = ITEM_SPECIAL
                   /\ gm'.items[i].y =
                        (0 - max_size(ITEM_SPECIAL)) * ONE + gm'.items[i].speed
         /\ ~due =>
              /\ made = 0
              /\ gm'.special_items_spawned = gm.special_items_spawned
              /\ CountKind(LiveKinds(gm'), ITEM_SPECIAL)
                   <= CountKind(LiveKinds(gm), ITEM_SPECIAL)
         /\ log'.ran =>
              /\ regular \in {0, 1}
              /\ gm'.spawn_timer =
                   IF regular = 1 THEN 0 ELSE gm.spawn_timer + 1 ]_vars

\* C9 witness: the tick of a forced spawn, the second of the round: the new
\* Special item is live, the flag is set, the regular counter went on
C9_Witness ==
  /\ CountKind(log.spawned, ITEM_SPECIAL) = 1
  /\ gm.special_items_spawned = 2
  /\ gm.special_spawned_this_interval
  /\ CountKind(LiveKinds(gm), ITEM_SPECIAL) = 1
  /\ gm.spawn_timer > 1

\* C10: a tick in which a Special item goes past the bottom bound
\* (y > screen height) without having been caught ends with special_missed
\* true, next_special_spawn_time = that tick's elapsed time + 10 s and
\* special_spawned_this_interval false; the misses of a tick are exactly the
\* Special items that fall past the bound untouched by the plate, so a
\* caught Special item causes none.
C10_SpecialMissRetry ==
  [][ /\ log'.missed > 0 =>
           /\ gm'.special_missed
           /\ gm'.next_special_spawn_time = clock' + 10 * 1000
           /\ ~gm'.special_spawned_this_interval
      /\ log'.ran =>
           log'.missed =
             Cardinality({i \in 1 .. Len(gm.items) :
                            FallsUncaught(gm.items[i], player')})
      /\ log'.missed = 0 => gm'.special_missed = gm.special_missed ]_vars

\* C10 witness: a Special item was missed in the last tick, after an
\* earlier one had been caught, and the retry is set 10 s from the miss
C10_Witness ==
  /\ log.missed = 1
  /\ gm.score >= 50
  /\ gm.special_missed
  /\ gm.next_special_spawn_time = gm.last_frame_time + 10 * 1000
  /\ ~gm.special_spawned_this_interval

\* the stage table as the claims give it: threshold in s, speed and
\* interval in tenths
StageTable ==
  << <<0, 13, 20>>, <<10, 15, 17>>, <<30, 18, 14>>, <<45, 21, 11>> >>

Tenths(n) == (n * ONE) \div 10

\* the bracket of the stage table an elapsed time falls in: the last
\* bracket from its lower threshold on, the first one below it
Bracket(elapsed) ==
  IF elapsed >= StageTable[3][1] * 1000 THEN 3
  ELSE IF elapsed >= StageTable[2][1] * 1000 THEN 2
  ELSE 1

\* C15: at each threshold 0, 10, 30, 45 s get_difficulty_params returns that
\* stage's own values, (1.3, 2.0), (1.5, 1.7), (1.8, 1.4), (2.1, 1.1), and
\* the values do not jump there: from one millisecond to the next the speed
\* moves by at most 0.00002 and the interval by at most 0.00003, the
\* steepest slopes of the table, at the thresholds as anywhere else.
C15_ThresholdValues ==
  [][ probe # None =>
      LET before == Obj(probe)
          after == Obj(probe')
      IN /\ \A i \in 1 .. 4 :
              after.elapsed = StageTable[i][1] * 1000 =>
                /\ after.params.speed = Tenths(StageTable[i][2])
                /\ after.params.spawn_interval = Tenths(StageTable[i][3])
         /\ after.elapsed = before.elapsed + 1 =>
              /\ after.params.speed - before.params.speed \in 0 .. 4
              /\ before.params.spawn_interval - after.params.spawn_interval
                   \in 0 .. 6 ]_vars

\* C15 witness: the call at exactly 10.0 s returned (1.5, 1.7)
C15_Witness ==
  /\ probe # None
  /\ Obj(probe).elapsed = 10 * 1000
  /\ Obj(probe).params = [speed |-> Tenths(15), spawn_interval |-> Tenths(17)]

\* C16 as stated, for every elapsed time: both outputs are the bracket's
\* lo + (hi - lo) * factor with factor = clamp((t - lo.t) / (hi.t - lo.t),
\* 0, 1), so the speed lies in [1.3, 2.1] and the interval in [1.1, 2.0].
C16_Interpolation ==
  probe # None =>
    LET t == Obj(probe).elapsed
        params == Obj(probe).params
        lo == StageTable[Bracket(t)]
        hi == StageTable[Bracket(t) + 1]
        den == (hi[1] - lo[1]) * 1000
        num == Max2(0, Min2(den, t - lo[1] * 1000))
    IN /\ (params.speed - Tenths(lo[2])) * den =
            (Tenths(hi[2]) - Tenths(lo[2])) * num
       /\ (params.spawn_interval - Tenths(lo[3])) * den =
            (Tenths(hi[3]) - Tenths(lo[3])) * num
       /\ params.speed >= Tenths(13) /\ params.speed <= Tenths(21)
       /\ params.spawn_interval >= Tenths(11)
       /\ params.spawn_interval <= Tenths(20)

\* C16 on the times a round can read (elapsed >= 0) only
C16_InRound ==
  (probe # None /\ Obj(probe).elapsed < 0) \/ C16_Interpolation

\* C17: from 45 s on get_difficulty_params returns (2.1, 1.1), whatever the
\* elapsed time.
C17_FlatPastLastStage ==
  (probe # None /\ Obj(probe).elapsed >= 45 * 1000) =>
    Obj(probe).params = [speed |-> Tenths(21), spawn_interval |-> Tenths(11)]

\* C17 witness: a call past the end of the round returned (2.1, 1.1)
C17_Witness ==
  /\ probe # None
  /\ Obj(probe).elapsed = (GAME_DURATION + 1) * 1000
  /\ Obj(probe).params = [speed |-> Tenths(21), spawn_interval |-> Tenths(11)]

\* C18 as stated: for an elapsed time below the first threshold (t < 0)
\* get_difficulty_params returns the first stage's values (1.3, 2.0).
C18_ClampBelowStart ==
  (probe # None /\ Obj(probe).elapsed < 0) =>
    Obj(probe).params = [speed |-> Tenths(13), spawn_interval |-> Tenths(20)]

\* the kinds in a sequence of kinds that are not Special, in order
Regulars(kinds) == SelectSeq(kinds, LAMBDA k : k # ITEM_SPECIAL)

\* C19: in every tick that is not terminal spawn_timer goes up by 1; if that
\* brings it to int(spawn interval * 30) or more, the interval being that
\* tick's, exactly one item of the regular stream is created, Good or Bad,
\* it is the newest live item after the tick, and spawn_timer is 0;
\* otherwise the regular stream creates nothing.  A Special item is created
\* only by the forced spawn.  A terminal tick leaves spawn_timer alone.
C19_RegularStream ==
  [][ LET frames ==
            Trunc(get_difficulty_params(clock').spawn_interval * 30, ONE)
          made == Regulars(log'.spawned)
          forced == /\ clock' >= gm.next_special_spawn_time
                    /\ ~gm.special_spawned_this_interval
      IN /\ ~log'.ran =>
              /\ gm'.spawn_timer = gm.spawn_timer
              /\ log'.spawned = << >>
         /\ log'.ran =>
              /\ Len(log'.spawned) = Len(made) + (IF forced THEN 1 ELSE 0)
              /\ IF gm.spawn_timer + 1 >= frames
                 THEN /\ Len(made) = 1
                      /\ made[1] \in {ITEM_GOOD, ITEM_BAD}
                      /\ gm'.spawn_timer = 0
                      /\ gm'.items # << >>
                      /\ gm'.items[Len(gm'.items)].type = made[1]
                 ELSE /\ made = << >>
                      /\ gm'.spawn_timer = gm.spawn_timer + 1 ]_vars

\* C19 witness: past 10 s, where the interval is below 2 s, a tick created
\* a Bad item and restarted the counter
C19_Witness ==
  /\ clock > 10 * 1000
  /\ log.spawned = <<ITEM_BAD>>
  /\ gm.spawn_timer = 0
  /\ gm.items # << >>
  /\ gm.items[Len(gm.items)].type = ITEM_BAD

\* C20: with a spawn interval whose tick threshold int(interval * 30) is
\* zero or negative, every tick creates exactly one item of the regular
\* stream, Good or Bad, and no more; the tick runs to its end (nothing is
\* raised), leaves spawn_timer at 0 and the live set at most one item
\* longer.
C20_DegenerateInterval ==
  [][ Trunc(Obj(probe').params.spawn_interval * 30, ONE) <= 0 =>
        /\ log'.ran
        /\ gm'.raised = NoError
        /\ Len(Regulars(log'.spawned)) = 1
        /\ Regulars(log'.spawned)[1] \in {ITEM_GOOD, ITEM_BAD}
        /\ Len(log'.spawned) = 1
        /\ gm'.spawn_timer = 0
        /\ Len(gm'.items) <= Len(gm.items) + 1
        /\ gm'.last_frame_time = clock' ]_vars

\* C20 witness: the third tick in a row with a negative interval: one item
\* created in it, three in all
C20_Witness ==
  /\ probe # None
  /\ Obj(probe).params.spawn_interval < 0
  /\ clock = 3 * FRAME_MS
  /\ Len(log.spawned) = 1
  /\ gm.spawn_timer = 0
  /\ Len(gm.items) + Len(log.catches) >= 1
  /\ Len(gm.items) <= 3

\* C13: a tick rolls the special schedule forward exactly when a Special
\* has been spawned for the interval (the flag is set, by an earlier tick or
\* by this one), no miss is flagged in the tick and elapsed >=
\* next_special_spawn_time + 10 s: then next_special_spawn_time becomes
\* elapsed + d with 20 s <= d < 30 s and the flag is cleared.  In a tick
\* that flags a miss the rollover does not fire and the retry time
\* elapsed + 10 s stands; in every other tick the spawn time is kept, so
\* after a miss it stays at the retry time until the retry is spawned.
C13_TimeoutRollover ==
  [][ log'.ran =>
        LET made == CountKind(log'.spawned, ITEM_SPECIAL) > 0
            armed == gm.special_spawned_this_interval \/ made
            due == /\ armed
                   /\ log'.missed = 0
                   /\ clock' >= gm.next_special_spawn_time + 10 * 1000
            d == gm'.next_special_spawn_time - clock'
        IN /\ due =>
                /\ ~gm'.special_spawned_this_interval
                /\ d >= 20 * 1000 /\ d < 30 * 1000
           /\ log'.missed > 0 =>
                /\ ~gm'.special_spawned_this_interval
                /\ d = 10 * 1000
           /\ (~due /\ log'.missed = 0) =>
                /\ gm'.special_spawned_this_interval = armed
                /\ gm'.next_special_spawn_time = gm.next_special_spawn_time
      ]_vars

\* C13 witness: the rollover of an interval whose Special was caught: the
\* flag is clear and the next spawn is 20 s or more from this tick
C13_Witness ==
  /\ log.ran /\ log.missed = 0
  /\ gm.special_items_spawned = 1
  /\ gm.score = 50
  /\ ~gm.special_missed
  /\ ~gm.special_spawned_this_interval
  /\ gm.next_special_spawn_time >= gm.last_frame_time + 20 * 1000

\* a Special item was caught in the last tick
SpecialCaught(l) ==
  \E i \in 1 .. Len(l.catches) : l.catches[i].type = ITEM_SPECIAL

\* C12 as stated: the tick in which the Special item is caught ends with
\* special_spawned_this_interval cleared and next_special_spawn_time a
\* fresh 20 to 30 s from that tick.
C12_CatchRollsSchedule ==
  SpecialCaught(log) =>
    /\ ~gm.special_spawned_this_interval
    /\ gm.next_special_spawn_time >= gm.last_frame_time + 20 * 1000
    /\ gm.next_special_spawn_time < gm.last_frame_time + 30 * 1000

\* C12, amended: the catch of a Special item does not touch the special
\* schedule.  A tick in which one is caught (and none is missed) leaves
\* next_special_spawn_time and the flag as the spawn step left them, unless
\* the tick is itself 10 s or more past the spawn time with the flag set:
\* then, and only then, the timeout rule rolls the schedule to elapsed + d,
\* 20 s <= d < 30 s, and clears the flag.
C12_CatchKeepsSchedule ==
  [][ (SpecialCaught(log') /\ log'.missed = 0) =>
        LET made == CountKind(log'.spawned, ITEM_SPECIAL) > 0
            armed == gm.special_spawned_this_interval \/ made
            late == armed /\ clock' >= gm.next_special_spawn_time + 10 * 1000
            d == gm'.next_special_spawn_time - clock'
        IN IF late
           THEN /\ ~gm'.special_spawned_this_interval
                /\ d >= 20 * 1000 /\ d < 30 * 1000
           ELSE /\ gm'.special_spawned_this_interval = armed
                /\ gm'.next_special_spawn_time = gm.next_special_spawn_time
      ]_vars

\* C12 witness: a Special item caught less than 10 s after its spawn time:
\* the flag is still set and the spawn time is still the one it was
\* spawned at
C12_Witness ==
  /\ SpecialCaught(log)
  /\ gm.special_spawned_this_interval
  /\ gm.next_special_spawn_time <= gm.last_frame_time
  /\ gm.last_frame_time < gm.next_special_spawn_time + 10 * 1000

\* C14: at most one Special item is live at any time: no Special is
\* spawned while an earlier one is still falling uncaught.
C14_OneSpecialLive == CountKind(LiveKinds(gm), ITEM_SPECIAL) <= 1

\* C11 as stated: every miss of a Special item gets its retry: no Special
\* item is spawned in the 10 s after the miss, and the first step of the
\* clock that reaches 10 s after the miss spawns exactly one.
C11_RetryWithin10s ==
  [][ (awaited # None /\ clock' # clock) =>
        LET made == CountKind(log'.spawned, ITEM_SPECIAL)
        IN IF clock' < Obj(awaited) + SPECIAL_RETRY * 1000
           THEN made = 0 ELSE made = 1 ]_vars

\* C11, amended: after a miss of a Special item at elapsed time m, no
\* Special item is spawned in a tick before m + 10 s, and exactly one is
\* spawned in the first tick of a running round with elapsed >= m + 10 s;
\* a miss less than 10 s before the round's end gets no retry.  (A later
\* miss before the retry makes the 10 s count from the later miss.)
C11_RetryAfterMiss ==
  [][ (awaited # None /\ log'.ran) =>
        LET made == CountKind(log'.spawned, ITEM_SPECIAL)
        IN IF clock' < Obj(awaited) + SPECIAL_RETRY * 1000
           THEN made = 0 ELSE made = 1 ]_vars

\* C11 witness: the retry has just been spawned: the first Special item
\* was missed (nothing was ever caught), and the second one was spawned
\* in the last tick, 10 s or more after the miss
C11_Witness ==
  /\ log.ran
  /\ CountKind(log.spawned, ITEM_SPECIAL) = 1
  /\ gm.special_items_spawned = 2
  /\ gm.special_missed /\ gm.score = 0
  /\ awaited = None
  /\ gm.next_special_spawn_time <= clock

\* the live item it touches the plate p (not yet caught, rectangles
\* intersecting)
Touches(it, p) == ~it.caught /\ colliderect(ItemRect(it), PlayerRect(p))

\* C21: in every tick that is not terminal the loop looks once at every
\* live item, the ones spawned in the tick included; handle_catch runs once,
\* in list order, for exactly the items whose rectangle after the move
\* intersects the plate's, each scoring its own value (and the milestone
\* bonus); the items left in the list are not caught and do not touch the
\* plate, so none can be scored again.
C21_CatchesExactlyTouching ==
  [][ (log'.ran /\ gm'.raised = NoError) =>
        LET at_plate(it) == Touches(it, player')
            due == SelectSeq(log'.seen, at_plate)
            n == Len(gm.items)
        IN /\ Len(log'.seen) = n + Len(log'.spawned)
           /\ \A i \in 1 .. n : log'.seen[i] = ItemUpdate(gm.items[i])
           /\ \A i \in 1 .. Len(log'.spawned) :
                log'.seen[n + i].type = log'.spawned[i]
           /\ Len(log'.catches) = Len(due)
           /\ \A i \in 1 .. Len(due) :
                /\ log'.catches[i].type = due[i].type
                /\ log'.catches[i].score_after - log'.catches[i].score_before
                     = due[i].score_value
                         + MilestoneBonus(log'.catches[i].count_after)
           /\ \A i \in 1 .. Len(gm'.items) :
                /\ ~gm'.items[i].caught
                /\ ~at_plate(gm'.items[i])
                /\ \E j \in 1 .. Len(log'.seen) :
                     gm'.items[i] = log'.seen[j]
      ]_vars

\* C21 witness: two items were caught in one tick while a third one, out
\* of the plate's reach, stayed in the list
C21_Witness ==
  /\ log.ran
  /\ Len(log.catches) = 2
  /\ Len(gm.items) >= 1

\* the combo window runs out in the step's tick, in which the first catch
\* is of a Good or a Special item
CatchAtExpiry ==
  /\ log'.ran
  /\ gm.combo_timer > 0
  /\ gm.combo_timer - (gm'.last_frame_time - gm.last_frame_time) <= 0
  /\ log'.catches # << >>
  /\ GoodOrSpecial(log'.catches[1])

\* C22 as stated: a Good/Special catch in the tick in which the timer would
\* have expired leaves the timer at the full window and the count at the
\* previous count + 1.
C22_CatchBeatsExpiry ==
  [][ CatchAtExpiry =>
        /\ log'.catches[1].timer_after = combo_max_time * 1000
        /\ log'.catches[1].count_after = gm.combo_count + 1 ]_vars

\* C22, amended: the decay is evaluated before the catches: the first
\* catch of a tick finds the timer as the decay left it.  A Good/Special
\* catch in the tick in which the timer runs out therefore comes after the
\* expiry: it finds count and timer at 0 and leaves the timer at the full
\* window and the count at 1, not at the previous count + 1.
C22_ExpiryThenCatch ==
  [][ /\ (log'.ran /\ log'.catches # << >>) =>
           LET left == gm.combo_timer
                         - (gm'.last_frame_time - gm.last_frame_time)
           IN /\ log'.catches[1].timer_before = Max2(0, left)
              /\ log'.expired = (gm.combo_timer > 0 /\ left <= 0)
      /\ CatchAtExpiry =>
           /\ log'.expired
           /\ log'.catches[1].count_before = 0
           /\ log'.catches[1].timer_before = 0
           /\ log'.catches[1].count_after = 1
           /\ log'.catches[1].timer_after = combo_max_time * 1000 ]_vars

\* C22 witness: the window ran out in the last tick and a Good item was
\* caught in it: the combo stands at 1 with a full window
C22_Witness ==
  /\ log.ran /\ log.expired
  /\ Len(log.catches) = 1
  /\ log.catches[1].type = ITEM_GOOD
  /\ gm.combo_count = 1
  /\ gm.combo_timer = combo_max_time * 1000

\* C23: after every completed tick that is not terminal the live items
\* hold no caught item and no item below the bottom of the screen.
C23_NoneCaughtNonePast ==
  (log.ran /\ gm.raised = NoError) =>
    \A i \in 1 .. Len(gm.items) :
      /\ ~gm.items[i].caught
      /\ gm.items[i].y <= DisplayHeight(player) * ONE

\* C24: every Item.update(dt) adds exactly the item's speed to y,
\* whatever dt is, and leaves x, the speed and the width and height of the
\* collision box as they were; dt enters the rotation only, which is within
\* [0, 360) after every update.
C24_FallIgnoresDt ==
  [][ (sprite # None /\ sprite' # None) =>
        LET old == Obj(sprite)
            new == Obj(sprite')
        IN /\ new.y = old.y + old.speed
           /\ new.x = old.x /\ new.speed = old.speed
           /\ new.width = old.width /\ new.height = old.height
           /\ ItemRect(new).w = ItemRect(old).w
           /\ ItemRect(new).h = ItemRect(old).h
           /\ ItemRect(new).x = ItemRect(old).x
           /\ new.rotation >= 0 /\ new.rotation < FULL_TURN
           /\ \E dt \in SpriteDts, turns \in {0 - 1, 0, 1} :
                new.rotation = old.rotation + old.angular_velocity * dt
                                 + turns * FULL_TURN
      ]_vars

\* C24 witness: an item whose rotation a 4 s update() has taken below 0 and
\* back into the range, three updates after its creation
C24_Witness ==
  /\ sprite # None
  /\ Obj(sprite).y = (0 - max_size(Obj(sprite).type)) * ONE
                       + 3 * Obj(sprite).speed
  /\ Obj(sprite).angular_velocity < 0
  /\ Obj(sprite).rotation > FULL_TURN \div 2

\* C25: after update_target(v), for v inside or outside [0, 1], target_x is
\* v * SCREEN_WIDTH clamped to [width // 2, SCREEN_WIDTH - width // 2];
\* after every frame the plate's x lies in that interval; a frame whose
\* hand_x is None leaves target_x as it was.
C25_TargetClamped ==
  [][ clock' # clock =>
        LET lo == (player.width \div 2) * 5
            hi == (SCREEN_WIDTH - player.width \div 2) * 5
        IN /\ hand' # None =>
                LET raw == (Obj(hand') * SCREEN_WIDTH * 5) \div 10
                IN player'.target_x =
                     (IF raw < lo THEN lo ELSE IF raw > hi THEN hi ELSE raw)
           /\ hand' = None => player'.target_x = player.target_x
           /\ player'.target_x >= lo /\ player'.target_x <= hi
           /\ player'.x >= lo /\ player'.x <= hi ]_vars

\* C25 witness: the hand is 1.5 picture widths to the right and the target
\* is held at the right end of the interval, the plate on its way there
C25_Witness ==
  /\ hand = <<15>>
  /\ player.target_x = (SCREEN_WIDTH - player.width \div 2) * 5
  /\ player.x > (SCREEN_WIDTH \div 2) * 5 + 2
  /\ player.x < player.target_x

\* C26: between ticks the combo is either idle (count 0, timer 0) or
\* active (count >= 1, timer > 0): combo_count > 0 exactly when
\* combo_timer > 0, combo_count >= 0 and 0 <= combo_timer <= 4.0 s.
C26_ComboConsistent ==
  /\ (gm.combo_count > 0) = (gm.combo_timer > 0)
  /\ gm.combo_count >= 0
  /\ gm.combo_timer >= 0
  /\ gm.combo_timer <= combo_max_time * 1000

\* C26 witness: the window of a combo of 3 ran out in the last tick, which
\* left the combo idle
C26_Witness ==
  /\ log.ran /\ log.expired /\ log.catches = << >>
  /\ gm.combo_count = 0 /\ gm.combo_timer = 0
  /\ gm.score >= 30

\* C27: no item is removed from the live items twice in a tick: an item
\* that is caught is not off screen in that tick, and update() never
\* raises.
C27_NoDoubleRemove ==
  /\ gm.raised = NoError
  /\ \A i \in 1 .. Len(log.catches) : ~log.catches[i].off_screen

\* C28: no Special item exists while elapsed < 20 s: until the initial
\* delay, which is at least 20 s, is reached, special_items_spawned is 0,
\* no live item is Special and the delay stays as drawn; every value
\* written to next_special_spawn_time later is at least 10 s past the
\* elapsed time of the tick that writes it.
C28_NoEarlySpecial ==
  [][ /\ gm.special_items_spawned = 0 =>
           /\ gm.next_special_spawn_time >= 20 * 1000
           /\ CountKind(LiveKinds(gm), ITEM_SPECIAL) = 0
      /\ clock' < 20 * 1000 =>
           /\ gm'.special_items_spawned = 0
           /\ CountKind(LiveKinds(gm'), ITEM_SPECIAL) = 0
      /\ (gm.special_items_spawned = 0
            /\ clock' < gm.next_special_spawn_time) =>
           /\ gm'.special_items_spawned = 0
           /\ gm'.next_special_spawn_time = gm.next_special_spawn_time
      /\ gm'.next_special_spawn_time # gm.next_special_spawn_time =>
           gm'.next_special_spawn_time >= clock' + 10 * 1000 ]_vars

\* C28 witness: the first Special item was spawned in the tick that read
\* exactly 20 s
C28_Witness ==
  /\ log.ran
  /\ gm.special_items_spawned = 1
  /\ CountKind(log.spawned, ITEM_SPECIAL) = 1
  /\ gm.last_frame_time = 20 * 1000
  /\ CountKind(LiveKinds(gm), ITEM_SPECIAL) = 1

\* C29: difficulty never eases: from one millisecond to the next, and
\* from any elapsed time t1 >= 0 to every later half second t2, the speed
\* multiplier does not fall and the spawn interval, and with it the spawn
\* threshold in ticks, does not rise.
C29_NeverEases ==
  [][ (probe' # None /\ Obj(probe').elapsed >= 0) =>
        LET t1 == Obj(probe').elapsed
            at1 == Obj(probe').params
            NotEasier(a, b) ==
              /\ a.speed <= b.speed
              /\ a.spawn_interval >= b.spawn_interval
              /\ spawn_interval_frames(a.spawn_interval)
                   >= spawn_interval_frames(b.spawn_interval)
        IN /\ (probe # None /\ Obj(probe).elapsed >= 0
                 /\ Obj(probe).elapsed <= t1) =>
                NotEasier(Obj(probe).params, at1)
           /\ \A k \in 0 .. 2 * (GAME_DURATION + Overtime) :
                k * 500 >= t1 =>
                  NotEasier(at1, get_difficulty_params(k * 500)) ]_vars

\* C29 witness: the call one millisecond before the third stage begins:
\* the speed is above the second stage's and still below the third's
C29_Witness ==
  /\ probe # None
  /\ Obj(probe).elapsed = stages[3].t * 1000 - 1
  /\ Obj(probe).params.speed > stages[2].speed
  /\ Obj(probe).params.speed < get_difficulty_params(stages[3].t * 1000).speed

\* C30: an item's speed is set when it is created, to its base speed
\* times the speed multiplier that the same tick has just recomputed from
\* the elapsed time, and never changes afterwards: the items that were
\* live before a tick go through it with the speed they had, whatever the
\* multiplier has become.
C30_SpeedFixedAtSpawn ==
  [][ (log'.ran /\ gm'.raised = NoError) =>
        LET n == Len(gm.items)
        IN /\ gm'.speed_multiplier = get_difficulty_params(clock').speed
           /\ Len(log'.seen) = n + Len(log'.spawned)
           /\ \A i \in 1 .. n : log'.seen[i].speed = gm.items[i].speed
           /\ \A i \in (n + 1) .. Len(log'.seen) :
                \E b \in BaseSpeeds :
                  log'.seen[i].speed = b * gm'.speed_multiplier
           /\ \A i \in 1 .. Len(gm'.items) :
                \E j \in 1 .. Len(log'.seen) :
                  /\ gm'.items[i].speed = log'.seen[j].speed
                  /\ gm'.items[i].type = log'.seen[j].type
                  /\ gm'.items[i].y = log'.seen[j].y ]_vars

\* C30 witness: a live item, three frames after its spawn, whose speed is
\* no base speed times the multiplier of the current tick
C30_Witness ==
  /\ log.ran
  /\ \E i \in 1 .. Len(gm.items) :
       /\ gm.items[i].y = (0 - gm.items[i].height) * ONE
                            + 3 * gm.items[i].speed
       /\ \A b \in BaseSpeeds : gm.items[i].speed # b * gm.speed_multiplier

\* every KEYDOWN event that main() tells apart
AllKeys == {NoKey, K_SPACE, K_n, K_m, K_RETURN, K_ESCAPE}

\* C31: in every round, replays included, the EndScreen exists only once
\* at least 1.0 s of GAME_OVER has passed since the frame that ended the
\* round, and as long as there is no EndScreen or its buttons are not
\* shown, no key pressed in GAME_OVER changes the game state or the end
\* screen.
C31_EndScreenAfterDelay ==
  app.game_state = GAME_OVER =>
    /\ app.end_screen # None =>
         Obj(app.created_at) - Obj(app.ended_at) >= 1000
    /\ (app.end_screen = None \/ ~Obj(app.end_screen).buttons_shown) =>
         \A key \in AllKeys :
           LET a == handle_key(app, key)
           IN /\ a.game_state = GAME_OVER
              /\ a.end_screen = app.end_screen

\* how often the entry e occurs in the list scores
Occurrences(scores, e) ==
  Cardinality({i \in 1 .. Len(scores) : scores[i] = e})

\* the frame in which a round reaches game over
RoundEnds == app.game_state = PLAYING /\ app'.game_state = GAME_OVER

\* what holds of a round's end and of the frames after it whether or not
\* the entry stays in the file: the entry appended is (player name, final
\* score), only the frame of the PLAYING to GAME_OVER transition writes
\* scores.json, and a session that is over is never updated again
EntryAndSession ==
  /\ RoundEnds =>
       /\ gm'.game_over /\ ~gm.game_over
       /\ app'.appended =
            <<[name |-> app.player_name, score |-> gm'.score]>>
       /\ app'.ended_at = <<app'.ticks>>
  /\ ~RoundEnds =>
       /\ app'.scores_json = app.scores_json
       /\ app'.appended = app.appended
  /\ app.game_state = PLAYING => ~gm.game_over
  /\ (gm.game_over /\ gm' # gm) =>
       /\ app'.rounds = app.rounds + 1
       /\ ~gm'.game_over /\ gm'.score = 0 /\ gm'.items = << >>
  /\ app'.game_state = GAME_OVER =>
       /\ Obj(app'.appended).score = gm'.score
       /\ app'.end_screen # None =>
            Obj(app'.end_screen).score = gm'.score

\* C32 as claimed: every round that reaches game over adds exactly one
\* entry (player name, final score) to the saved leaderboard, in the frame
\* of the PLAYING to GAME_OVER transition; GameManager.update is not
\* called for that session afterwards and the saved score is the
\* session's final score.
C32_EntrySaved ==
  [][ /\ EntryAndSession
      /\ RoundEnds =>
           LET entry == [name |-> app.player_name, score |-> gm'.score]
           IN Occurrences(app'.scores_json, entry) =
                Occurrences(app.scores_json, entry) + 1 ]_vars

\* C32 amended: the entry is appended to the five best loaded from the
\* file and the list is saved cut to its five highest scores, earlier
\* entries first among equal scores; so the entry is in the saved file
\* exactly if fewer than five loaded entries have a score at least as
\* high, and otherwise the file is saved as it was.
C32_EntryAppended ==
  [][ /\ EntryAndSession
      /\ RoundEnds =>
           LET entry == [name |-> app.player_name, score |-> gm'.score]
               old == app.scores_json
               new == app'.scores_json
               ahead == Cardinality({i \in 1 .. Len(old) :
                                       old[i].score >= entry.score})
           IN /\ Len(new) <= 5
              /\ \A i \in 1 .. Len(new) - 1 : new[i].score >= new[i + 1].score
              /\ IF ahead < 5
                 THEN /\ Occurrences(new, entry) = Occurrences(old, entry) + 1
                      /\ new[ahead + 1] = entry
                      /\ Len(new) = Min2(5, Len(old) + 1)
                 ELSE new = old ]_vars

\* C32 witness: a second round has just ended with a Special caught, and
\* its entry has pushed the lowest of five scores out of the file
C32_Witness ==
  /\ app.game_state = GAME_OVER
  /\ app.ended_at = <<app.ticks>>
  /\ app.rounds = 2
  /\ gm.score = 50
  /\ Len(app.scores_json) = 5
  /\ app.scores_json[5] = Obj(app.appended)
  /\ \A i \in 1 .. 4 : app.scores_json[i].name = <<"Z">>

=============================================================================
